---- MODULE Spec2Model ----
(***************************************************************************)
(* The checkout orchestration state machine of the KryptoPay SDK:          *)
(* CheckoutController (src/ui/controller.ts), the polling engine           *)
(* waitForFinalStatus (src/unnamed/part_004), the wallet flow and the error*)
(* normalizer toPublicError (src/ui/state.ts).                             *)
(*                                                                         *)
(* JavaScript runs one callback at a time, so every action below is one    *)
(* synchronous run of the code: from a public call, or from the resumption *)
(* of an await, up to the next await.  The awaiting invocations are the    *)
(* entries of `tasks`.                                                     *)
(***************************************************************************)
EXTENDS Integers, Sequences, FiniteSets, TLC

(***************************************************************************)
(* Program constants.                                                      *)
(***************************************************************************)
\* the string ""
EmptyHash == <<"", 0>>

awaitingThresholdMs == 60000
pollIntervalMs == 2500
pollTimeoutMs == 600000

\* `undefined` for the optional timestamp pendingSince: the code tests it with
\* `!pendingSince`, which also takes 0; Date.now() is never 0.
Undefined == 0

\* lastTxHash = null
NullHash == <<"null", 0>>

(***************************************************************************)
(* Bounds of the model.                                                    *)
(***************************************************************************)
\* async invocations (open, continue, keepWaiting) started in one behaviour
MaxTasks == 3
\* the same for an instance that is closed and opened again with a second
\* continue() (scenario "toggled")
MaxToggleTasks == 4
\* close() calls in one behaviour
MaxCloses == 2
\* resolver queries of the polling loops of one behaviour when the resolver
\* is unconstrained
MaxPolls == 4
\* resolver queries of the polling loop under a scripted resolver
MaxScriptPolls == 27
\* functions that are passed to subscribe()
MaxListeners == 1
\* handles returned by subscribe() for one function and not called yet
MaxHandles == 2

(***************************************************************************)
(* The environment.                                                        *)
(***************************************************************************)
\* Interactive scenarios: the resolver may answer any status or fail, the
\* caller may issue every public call in any order, and every resolver query
\* of a polling loop takes the same time:
\*   "fast"     no time,
\*   "slow"     the escalation threshold,
\*   "stalled"  the total timeout of the loop,
\*   "toggled"  the escalation threshold; the instance is driven as by the
\*              React wrapper, whose open prop goes false and true again
\*              (SpecToggle).
\* Scripted scenarios: the resolver answers at once and never fails, the
\* caller opens, continues and waits (no close(), no keepWaiting()):
\*   "pending"  pending_confirmations on every poll,
\*   "req3succ" requires_payment on the first 3 polls of the loop and
\*              succeeded on the next.
Interactive == {"fast", "slow", "stalled", "toggled"}
Scripted == {"pending", "req3succ"}
\* the scenarios of the main specification
Scenarios == (Interactive \ {"toggled"}) \cup Scripted

Statuses == {"requires_payment", "pending_confirmations", "succeeded", "expired"}

\* the status of the intent when the modal is opened
OpenStatuses == {"requires_payment"}

Methods == {"wallet", "manual"}

\* the time a resolver query of a polling loop takes
Latency(sc) ==
    IF sc \in {"slow", "toggled"} THEN awaitingThresholdMs
    ELSE IF sc = "stalled" THEN pollTimeoutMs
    ELSE 0

\* the chain the intent asks for, and another one
IntentChainId == 8453
OtherChainId == 137
ChainIds == {IntentChainId, OtherChainId}

\* what eth_requestAccounts may return
AccountLists == {<< >>, <<"0xA">>, <<"0xB", "0xA">>}

\* what eth_sendTransaction returns to invocation t: a hash no other
\* transaction has
TxHash(t) == <<"0xhash", t>>

(***************************************************************************)
(* Thrown values.  A JavaScript value as toPublicError sees it: the type   *)
(* and value of its `code`, its `recoverable`, its `message`, and whether  *)
(* it is an Error instance.                                                *)
(***************************************************************************)
Thrown(codeType, codeNum, codeStr, recoverable, msgType, message, isError) ==
    [codeType |-> codeType, codeNum |-> codeNum, codeStr |-> codeStr,
     recoverable |-> recoverable, msgType |-> msgType, message |-> message,
     isError |-> isError]

\* new KryptoPayError({code, message, recoverable})
KryptoPayError(code, message, recoverable) ==
    Thrown("string", 0, code, IF recoverable THEN "true" ELSE "false",
           "string", message, TRUE)

\* an Error given a string `code` by the wallet flow: `e.code = "wallet_..."`
CodedError(code, message) ==
    Thrown("string", 0, code, "undefined", "string", message, TRUE)

\* an EIP-1193 provider error {code: <number>, message?}
ProviderError(code, msgType, message) ==
    Thrown("number", code, "", "undefined", msgType, message, FALSE)

\* failures of resolveIntent: a recoverable and two non-recoverable ones
ResolverErrors ==
    { KryptoPayError("network_error", "Network error while resolving payment intent.", TRUE),
      KryptoPayError("intent_not_found", "Payment intent not found.", FALSE),
      KryptoPayError("invalid_response", "Resolve endpoint response missing field: id", FALSE) }

\* what a wallet call may reject with
WalletErrors ==
    { ProviderError(4001, "string", "User rejected the request."),
      ProviderError(4902, "string", "Unrecognized chain ID."),
      ProviderError(-32603, "undefined", ""),
      Thrown("undefined", 0, "", "undefined", "string", "provider disconnected", TRUE) }

\* s.trim().length
TrimLength(s) == IF s \in {"", " "} THEN 0 ELSE 1

\* toPublicError that does not look at the value of a numeric code
toPublicErrorByType(err) ==
    IF err.codeType = "number" THEN
        [code |-> "wallet_error",
         message |-> IF err.msgType = "string" /\ TrimLength(err.message) # 0
                     THEN err.message ELSE "Wallet error",
         recoverable |-> TRUE]
    ELSE IF err.codeType = "string" THEN
        [code |-> err.codeStr,
         message |-> IF err.msgType = "string" /\ TrimLength(err.message) # 0
                     THEN err.message ELSE "Unknown error",
         recoverable |-> TRUE]
    ELSE
        [code |-> "unknown_error",
         message |-> IF err.isError THEN err.message ELSE "Unknown error",
         recoverable |-> FALSE]

toPublicError(err) ==
    IF err.codeType = "number" THEN
        IF err.codeNum = 4001 THEN
            [code |-> "wallet_user_rejected",
             message |-> "You cancelled the request in your wallet.",
             recoverable |-> TRUE]
        ELSE IF err.codeNum = -32002 THEN
            [code |-> "wallet_request_pending",
             message |-> "A wallet request is already pending. Open your wallet to continue or cancel the pending request.",
             recoverable |-> TRUE]
        ELSE IF err.codeNum = 4902 THEN
            [code |-> "wallet_chain_not_added",
             message |-> "Your wallet doesn't have this network added. Please switch networks manually in your wallet or use manual payment.",
             recoverable |-> TRUE]
        ELSE
            [code |-> "wallet_error",
             message |-> IF err.msgType = "string" /\ TrimLength(err.message) # 0
                         THEN err.message ELSE "Wallet error",
             recoverable |-> TRUE]
    ELSE IF err.codeType = "string" THEN
        [code |-> err.codeStr,
         message |-> IF err.msgType = "string" /\ TrimLength(err.message) # 0
                     THEN err.message ELSE "Unknown error",
         recoverable |-> TRUE]
    ELSE IF err.codeType = "string" /\ err.recoverable \in {"true", "false"} THEN
        [code |-> err.codeStr,
         message |-> IF err.msgType = "string" THEN err.message ELSE "Unknown error",
         recoverable |-> (err.recoverable = "true")]
    ELSE
        [code |-> "unknown_error",
         message |-> IF err.isError THEN err.message ELSE "Unknown error",
         recoverable |-> FALSE]

(***************************************************************************)
(* State.                                                                  *)
(***************************************************************************)
VARIABLES
    scenario,       \* the environment of this behaviour, see Scenarios
    config,         \* this.config, as the constructor leaves it
    state,          \* this.state: a CheckoutState
    isRunning,      \* this.isRunning
    stopRequested,  \* this.stopRequested
    lastTxHash,     \* this.lastTxHash
    clock,          \* Date.now()
    tasks,          \* the async invocations started so far, awaiting or done
    queries,        \* how many resolver queries the polling loops have issued
    emitted,        \* the states passed to setState by the last step, in order
    fired,          \* the config callbacks invoked by the last step, in order
    calls,          \* how often each callback was invoked so far
    lastStep,       \* which step ran last, for which task, on which input
    listeners,      \* this.listeners: the registered functions, in insertion order
    handles,        \* per function, the handles subscribe() returned for it
                    \* that were not called yet
    received,       \* per function, the states the last step called it with
    seen,           \* per function, the state it was last called with
    threw           \* whether a function threw out of the last step

vars == <<scenario, config, state, isRunning, stopRequested, lastTxHash,
          clock, tasks, queries, emitted, fired, calls, lastStep,
          listeners, handles, received, seen, threw>>

\* the functions that only read the state they are called with, as the
\* React modal's setState and the vanilla modal's (s) => render(s)
ListenerIds == 1 .. MaxListeners

\* the vanilla modal's listener that renders and, on idle, calls the handle
\* its own subscribe() call returns
Cleanup == MaxListeners + 1

\* the older vanilla modal's second listener that, on idle, calls the handle
\* of the render function and then the merchant's onClose
Evict == MaxListeners + 2

\* the functions a UI may pass to subscribe()
Functions == ListenerIds \cup {Cleanup, Evict}

\* this.listeners.has(fn)
Registered(fn) == \E i \in DOMAIN listeners : listeners[i] = fn

\* a function that was not called yet, or was removed
NotCalled == [type |-> "never"]

(***************************************************************************)
(* constructor(config): the defaults, the spread of the caller's options,  *)
(* then the two overrides of defaultMethod.                                *)
(***************************************************************************)
\* an option is "absent" (the default stays), given as "true" / "false" or
\* "wallet" / "manual", or given as "undefined": the React and the vanilla
\* wrapper pass `allowManual: opts.allowManual` and so on, whatever the
\* merchant left out
Flags == {"absent", "undefined", "true", "false"}
Options ==
    [allowManual : Flags, allowWallet : Flags,
     defaultMethod : {"absent", "undefined", "wallet", "manual"}]

\* {default, ...config}: an own property of config wins, undefined included
Spread(default, given) == IF given = "absent" THEN default ELSE given

Constructor(opts) ==
    LET c0 == [allowManual |-> Spread("true", opts.allowManual) = "true",
               allowWallet |-> Spread("true", opts.allowWallet) = "true",
               defaultMethod |-> Spread("wallet", opts.defaultMethod)]
        c1 == IF ~c0.allowWallet THEN [c0 EXCEPT !.defaultMethod = "manual"] ELSE c0
        c2 == IF ~c1.allowManual THEN [c1 EXCEPT !.defaultMethod = "wallet"] ELSE c1
    IN  c2

\* what the merchant asked for: an option left out or undefined has the
\* default of the constructor
Requested(o) ==
    [allowManual |-> o.allowManual # "false",
     allowWallet |-> o.allowWallet # "false",
     defaultMethod |-> IF o.defaultMethod \in {"absent", "undefined"}
                       THEN "wallet" ELSE o.defaultMethod]

\* configuration validation upstream: at least one method is enabled
ValidOptions ==
    {o \in Options : Requested(o).allowManual \/ Requested(o).allowWallet}

getInitialMethod ==
    LET pref == IF config.defaultMethod = "undefined" THEN "wallet"
                ELSE config.defaultMethod IN
    IF pref = "wallet" /\ config.allowWallet THEN "wallet"
    ELSE IF pref = "manual" /\ config.allowManual THEN "manual"
    ELSE IF config.allowWallet THEN "wallet"
    ELSE "manual"

(***************************************************************************)
(* Values.                                                                 *)
(***************************************************************************)
\* A snapshot returned by resolveIntent: its status, and which resolver
\* response it is (the task that asked, and the index of its query: 0 for
\* open(), k for the k-th query of a polling loop).
Intent(status, by, obs) == [status |-> status, by |-> by, obs |-> obs]

NoIntent == Intent("none", 0, 0)

Waiting(intent, since) ==
    [type |-> "waiting", intent |-> intent, pendingConfirmationsSince |-> since]

\* An invocation.  Of a polling loop the model also records how many
\* close() calls preceded its start (session) and the hash of the transfer
\* its wallet flow submitted (sent).
Task(kind, pc, intent) ==
    [kind |-> kind, pc |-> pc, intent |-> intent, from |-> "",
     start |-> 0, pendingSince |-> Undefined, polls |-> 0, wakeAt |-> 0,
     session |-> 0, sent |-> NullHash]

\* a returned invocation; of its history only the hash it submitted is kept
Done(t) == [Task(t.kind, "done", NoIntent) EXCEPT !.sent = t.sent]

\* a task entering waitForFinalStatus: start = Date.now(), first query issued
Polling(t) ==
    [Task(t.kind, "poll_resolve", NoIntent) EXCEPT !.start = clock, !.polls = 1,
                                                   !.session = calls.onClose,
                                                   !.sent = t.sent]

WalletPcs == {"requestAccounts", "getChainId", "switchChain", "getChainId2", "sendTransfer"}

(***************************************************************************)
(* The controller's fields during one synchronous run, with the states it  *)
(* published and the callbacks it invoked so far in that run.              *)
(***************************************************************************)
Ctl0 ==
    [state |-> state, isRunning |-> isRunning, stopRequested |-> stopRequested,
     lastTxHash |-> lastTxHash, emitted |-> << >>, fired |-> << >>,
     received |-> [fn \in Functions |-> << >>],
     listeners |-> listeners, handles |-> handles, threw |-> FALSE]

\* this.config.onX?.(arg)
invoke(c, cb, arg) == [c EXCEPT !.fired = Append(@, [cb |-> cb, arg |-> arg])]

\* this.listeners.has(fn) during a run
Has(c, fn) == \E i \in DOMAIN c.listeners : c.listeners[i] = fn

\* a handle of fn is called during a run: this.listeners.delete(fn)
unsubscribe(c, fn) ==
    [c EXCEPT !.listeners = SelectSeq(@, LAMBDA g : g # fn),
              !.handles[fn] = IF @ > 0 THEN @ - 1 ELSE 0]

\* the call fn(next).  Cleanup reads `unsubscribe` before the subscribe()
\* call that initialises it has returned: a ReferenceError.
callback(c, fn, next) ==
    LET got == [c EXCEPT !.received[fn] = Append(@, next)] IN
    IF next.type # "idle" THEN got
    ELSE IF fn = Cleanup
         THEN IF got.handles[fn] = 0 THEN [got EXCEPT !.threw = TRUE]
              ELSE unsubscribe(got, fn)
    ELSE IF fn = Evict
         THEN invoke(unsubscribe(got, 1), "onClose", "none")
    ELSE got

\* for (const fn of this.listeners) fn(next): the functions in insertion
\* order; one deleted before its turn is not called, and an exception ends
\* the loop
RECURSIVE notify(_, _, _)
notify(c, pending, next) ==
    IF pending = << >> \/ c.threw THEN c
    ELSE LET fn == Head(pending) IN
         notify(IF Has(c, fn) THEN callback(c, fn, next) ELSE c, Tail(pending), next)

\* the loop of setState over an array by index: after a call that removed a
\* function the index has moved past the next one
RECURSIVE notifySkipping(_, _, _)
notifySkipping(c, pending, next) ==
    IF pending = << >> \/ c.threw THEN c
    ELSE LET fn == Head(pending)
             c1 == IF Has(c, fn) THEN callback(c, fn, next) ELSE c
             rest == IF Len(c1.listeners) < Len(c.listeners) /\ Len(pending) > 1
                     THEN Tail(Tail(pending)) ELSE Tail(pending)
         IN  notifySkipping(c1, rest, next)

\* setState on top of that loop
setStateSkipping(c, next) ==
    LET c1 == [c EXCEPT !.state = next, !.emitted = Append(@, next)]
    IN  notifySkipping(c1, c1.listeners, next)

\* setState that calls every registered function twice
setStateTwice(c, next) ==
    LET c1 == [c EXCEPT !.state = next, !.emitted = Append(@, next)]
    IN  notify(c1, c1.listeners \o c1.listeners, next)

\* setState that stores the state and notifies nobody
setStateQuietly(c, next) == [c EXCEPT !.state = next, !.emitted = Append(@, next)]

\* setState(next): store it, then call every registered function with it
setState(c, next) ==
    LET c1 == [c EXCEPT !.state = next, !.emitted = Append(@, next)]
    IN  notify(c1, c1.listeners, next)

Count(seq, cb) == Cardinality({i \in DOMAIN seq : seq[i].cb = cb})

Commit(c) ==
    /\ state' = c.state
    /\ isRunning' = c.isRunning
    /\ stopRequested' = c.stopRequested
    /\ lastTxHash' = c.lastTxHash
    /\ emitted' = c.emitted
    /\ fired' = c.fired
    /\ calls' = [cb \in DOMAIN calls |-> calls[cb] + Count(c.fired, cb)]
    /\ received' = c.received
    /\ seen' = [fn \in Functions |->
                   IF ~Has(c, fn) THEN NotCalled
                   ELSE IF c.received[fn] = << >> THEN seen[fn]
                   ELSE c.received[fn][Len(c.received[fn])]]
    /\ listeners' = c.listeners
    /\ handles' = c.handles
    /\ threw' = c.threw

\* the invocations followed in this behaviour
TaskLimit == IF scenario = "toggled" THEN MaxToggleTasks ELSE MaxTasks

Step(op, t) == [op |-> op, task |-> t]

\* the resolver queries issued by a step: one by each loop that asks again,
\* one by each loop that starts
Issued(before, after) ==
    Cardinality({t \in DOMAIN after :
                    /\ after[t].pc = "poll_resolve"
                    /\ t \in DOMAIN before => before[t].pc # "poll_resolve"})

Queried == queries' = queries + Issued(tasks, tasks')

Constructed ==
    /\ scenario \in Interactive \cup Scripted
    /\ config \in {Constructor(o) : o \in ValidOptions}
    /\ state = [type |-> "idle"]
    /\ isRunning = FALSE
    /\ stopRequested = FALSE
    /\ lastTxHash = NullHash
    /\ clock = pollIntervalMs
    /\ tasks = << >>
    /\ queries = 0
    /\ emitted = << >>
    /\ fired = << >>
    /\ calls = [onClose |-> 0, onSuccess |-> 0, onAwaitingConfirmation |-> 0, onError |-> 0]
    /\ listeners = << >>
    /\ handles = [fn \in Functions |-> 0]
    /\ received = [fn \in Functions |-> << >>]
    /\ seen = [fn \in Functions |-> NotCalled]
    /\ threw = FALSE

Init == Constructed /\ scenario \in Scenarios /\ lastStep = Step("new", 0)

(***************************************************************************)
(* open()                                                                  *)
(***************************************************************************)
\* open() without its test of isRunning
openAgain(c) ==
    LET c1 == [c EXCEPT !.isRunning = TRUE, !.stopRequested = FALSE]
    IN  setState(c1, [type |-> "loading_intent"])

\* open() up to its await of resolveIntent
open(c) ==
    IF c.isRunning THEN c
    ELSE LET c1 == [c EXCEPT !.isRunning = TRUE, !.stopRequested = FALSE]
         IN  setState(c1, [type |-> "loading_intent"])

Open ==
    IF open(Ctl0) = Ctl0
    THEN UNCHANGED vars
    ELSE /\ Len(tasks) < TaskLimit
         /\ Commit(open(Ctl0))
         /\ tasks' = Append(tasks, [Task("open", "open_resolve", NoIntent)
                                        EXCEPT !.session = calls.onClose])
         /\ lastStep' = Step("open", Len(tasks) + 1)
         /\ Queried
    /\ UNCHANGED <<scenario, config, clock>>

\* the try block of open() publishing choose_method with the banner of a
\* wallet failure
openTryWithBanner(c, intent) ==
    setState(c, [type |-> "choose_method", intent |-> intent,
                 selected |-> getInitialMethod, message |-> "Wallet error"])

\* the try block of open() after its await
openTry(c, intent) ==
    setState(c, [type |-> "choose_method", intent |-> intent,
                 selected |-> getInitialMethod])

\* the resolver call of open() returns a snapshot
OpenResolved(t, status) ==
    /\ tasks[t].pc = "open_resolve"
    /\ status \in OpenStatuses
    /\ Commit(openTry(Ctl0, Intent(status, t, 0)))
    /\ tasks' = [tasks EXCEPT ![t] = Done(@)]
    /\ lastStep' = Step("openResolved", t)
    /\ Queried
    /\ UNCHANGED <<scenario, config, clock>>

\* open()'s catch block with the onError call forgotten
openCatchSilent(c, err) ==
    setState(c, [type |-> "error", error |-> toPublicError(err)])

\* the catch block of open() also letting go of the running flag
openCatchReleases(c, err) ==
    LET pub == toPublicError(err)
        c1 == invoke([c EXCEPT !.isRunning = FALSE], "onError", pub)
    IN  setState(c1, [type |-> "error", error |-> pub])

\* the catch block of open()
openCatch(c, err) ==
    LET pub == toPublicError(err)
        c1 == invoke(c, "onError", pub)
    IN  setState(c1, [type |-> "error", error |-> pub])

\* the resolver call of open() throws
OpenRejected(t, err) ==
    /\ tasks[t].pc = "open_resolve"
    /\ scenario \in Interactive
    /\ Commit(openCatch(Ctl0, err))
    /\ tasks' = [tasks EXCEPT ![t] = Done(@)]
    /\ lastStep' = [op |-> "openRejected", task |-> t, thrown |-> err]
    /\ Queried
    /\ UNCHANGED <<scenario, config, clock>>

(***************************************************************************)
(* close()                                                                 *)
(***************************************************************************)
\* close() returning early when the controller is not running
closeWhenRunning(c) ==
    IF ~c.isRunning THEN c
    ELSE LET c1 == [c EXCEPT !.stopRequested = TRUE, !.isRunning = FALSE]
             c2 == invoke(c1, "onClose", "none")
         IN  setState(c2, [type |-> "idle"])

close(c) ==
    LET c1 == [c EXCEPT !.stopRequested = TRUE, !.isRunning = FALSE]
        c2 == invoke(c1, "onClose", "none")
    IN  setState(c2, [type |-> "idle"])

Close ==
    /\ scenario \in Interactive
    /\ calls.onClose < MaxCloses
    /\ Commit(close(Ctl0))
    /\ lastStep' = [op |-> "close", task |-> 0, from |-> state.type]
    /\ UNCHANGED <<scenario, config, clock, tasks, queries>>

(***************************************************************************)
(* selectMethod(method)                                                    *)
(***************************************************************************)
\* selectMethod without its tests of the configuration
selectMethodAnyMethod(c, method) ==
    IF c.state.type # "choose_method" THEN c
    ELSE setState(c, [c.state EXCEPT !.selected = method])

\* selectMethod publishing only when the selection changes
selectMethodOnChange(c, method) ==
    IF c.state.type # "choose_method" THEN c
    ELSE IF method = "wallet" /\ ~config.allowWallet THEN c
    ELSE IF method = "manual" /\ ~config.allowManual THEN c
    ELSE IF c.state.selected = method THEN c
    ELSE setState(c, [c.state EXCEPT !.selected = method])

selectMethod(c, method) ==
    IF c.state.type # "choose_method" THEN c
    ELSE IF method = "wallet" /\ ~config.allowWallet THEN c
    ELSE IF method = "manual" /\ ~config.allowManual THEN c
    ELSE setState(c, [c.state EXCEPT !.selected = method])

SelectMethod(method) ==
    IF selectMethod(Ctl0, method) = Ctl0
    THEN UNCHANGED vars
    ELSE /\ Commit(selectMethod(Ctl0, method))
         /\ lastStep' = [op |-> "selectMethod", task |-> 0, method |-> method]
         /\ UNCHANGED <<scenario, config, clock, tasks, queries>>

(***************************************************************************)
(* startPolling(initialIntent), up to its await of waitForFinalStatus.     *)
(***************************************************************************)
startPolling(c, initialIntent) ==
    IF c.stopRequested THEN c
    ELSE setState(c, Waiting(initialIntent, Undefined))

\* the invocation t after its call of startPolling under c: returned at once,
\* or awaiting the first resolver query of waitForFinalStatus
AfterStartPolling(c, t) == IF c.stopRequested THEN Done(t) ELSE Polling(t)

(***************************************************************************)
(* The catch block of startWalletFlow.                                     *)
(***************************************************************************)
\* the catch block without the manual fallback
walletCatchNoFallback(c, intent, err) ==
    LET pub == toPublicError(err)
        c1 == invoke(c, "onError", pub)
    IN  setState(c1, [type |-> "error", error |-> pub, lastIntent |-> intent])

\* the catch block falling back to manual whatever the configuration says
walletCatchAlwaysFallsBack(c, intent, err) ==
    LET pub == toPublicError(err)
        c1 == setState(c, [type |-> "choose_method", intent |-> intent,
                           selected |-> "manual", message |-> pub.message])
        c2 == setState(c1, [type |-> "manual_instructions", intent |-> intent])
    IN  IF c2.stopRequested THEN c2 ELSE setState(c2, Waiting(intent, Undefined))

\* the catch block stopping at the chooser it shows with the banner
walletCatchChooserOnly(c, intent, err) ==
    LET pub == toPublicError(err)
    IN  setState(c, [type |-> "choose_method", intent |-> intent,
                     selected |-> "manual", message |-> pub.message])

walletCatch(c, intent, err) ==
    LET pub == toPublicError(err) IN
    IF config.allowManual
    THEN LET c1 == setState(c, [type |-> "choose_method", intent |-> intent,
                                selected |-> "manual", message |-> pub.message])
             c2 == setState(c1, [type |-> "manual_instructions", intent |-> intent])
         IN  startPolling(c2, intent)
    ELSE LET c1 == invoke(c, "onError", pub)
         IN  setState(c1, [type |-> "error", error |-> pub, lastIntent |-> intent])

AfterWalletCatch(c, t) ==
    IF config.allowManual THEN AfterStartPolling(c, t) ELSE Done(t)

WalletNotFound ==
    CodedError("wallet_not_found",
               "No injected wallet found. Install a wallet extension or use manual payment.")
WalletNoAccount == CodedError("wallet_no_account", "No wallet account available.")
WalletWrongNetwork ==
    CodedError("wallet_wrong_network", "Wallet did not switch to the correct network.")

(***************************************************************************)
(* continue(), with startWalletFlow up to its first await.  `provider`     *)
(* tells whether window.ethereum is there.                                 *)
(***************************************************************************)
Continue(provider) ==
    IF state.type # "choose_method"
    THEN UNCHANGED vars
    ELSE /\ Len(tasks) < TaskLimit
         /\ LET intent == state.intent
                t == Len(tasks) + 1
                new == Task("continue", "new", intent)
                c1 == [Ctl0 EXCEPT !.lastTxHash = NullHash]
            IN  IF state.selected = "manual"
                THEN LET c2 == setState(c1, [type |-> "manual_instructions",
                                             intent |-> intent])
                     IN  /\ Commit(startPolling(c2, intent))
                         /\ tasks' = Append(tasks, AfterStartPolling(c2, new))
                         /\ lastStep' = Step("continue", t)
                ELSE IF ~provider
                THEN /\ Commit(walletCatch(c1, intent, WalletNotFound))
                     /\ tasks' = Append(tasks, AfterWalletCatch(c1, new))
                     /\ lastStep' = [op |-> "continue", task |-> t,
                                     thrown |-> WalletNotFound, intent |-> intent]
                ELSE /\ Commit(setState(c1, [type |-> "wallet_connecting",
                                             intent |-> intent]))
                     /\ tasks' = Append(tasks, [new EXCEPT !.pc = "requestAccounts"])
                     /\ lastStep' = Step("continue", t)
         /\ Queried
    /\ UNCHANGED <<scenario, config, clock>>

(***************************************************************************)
(* startWalletFlow, step by step.                                          *)
(***************************************************************************)
\* a step of the flow throws err into the catch block
WalletThrow(t, op, err) ==
    /\ Commit(walletCatch(Ctl0, tasks[t].intent, err))
    /\ tasks' = [tasks EXCEPT ![t] = AfterWalletCatch(Ctl0, @)]
    /\ lastStep' = [op |-> op, task |-> t, thrown |-> err, intent |-> tasks[t].intent]

\* requestAccounts(provider) returns
AccountsResolved(t, accounts) ==
    /\ tasks[t].pc = "requestAccounts"
    /\ IF accounts = << >>
       THEN WalletThrow(t, "accounts", WalletNoAccount)
       ELSE /\ Commit(Ctl0)
            /\ tasks' = [tasks EXCEPT ![t].pc = "getChainId", ![t].from = accounts[1]]
            /\ lastStep' = [op |-> "accounts", task |-> t, accounts |-> accounts]
    /\ Queried
    /\ UNCHANGED <<scenario, config, clock>>

\* the call of sendErc20Transfer without the transition to wallet_sending
BeginSendSilently(t) ==
    /\ Commit(Ctl0)
    /\ tasks' = [tasks EXCEPT ![t].pc = "sendTransfer"]

\* the transition to wallet_sending and the call of sendErc20Transfer
BeginSend(t) ==
    /\ Commit(setState(Ctl0, [type |-> "wallet_sending", intent |-> tasks[t].intent,
                              from |-> tasks[t].from]))
    /\ tasks' = [tasks EXCEPT ![t].pc = "sendTransfer"]

\* the first getChainId(provider) returns
ChainIdResolved(t, currentChainId) ==
    /\ tasks[t].pc = "getChainId"
    /\ IF currentChainId # IntentChainId
       THEN /\ Commit(setState(Ctl0, [type |-> "wallet_switching_chain",
                                      intent |-> tasks[t].intent]))
            /\ tasks' = [tasks EXCEPT ![t].pc = "switchChain"]
       ELSE BeginSend(t)
    /\ lastStep' = [op |-> "chainId", task |-> t, chainId |-> currentChainId]
    /\ Queried
    /\ UNCHANGED <<scenario, config, clock>>

\* switchEthereumChain(provider, intent.chain_id) returns
SwitchResolved(t) ==
    /\ tasks[t].pc = "switchChain"
    /\ Commit(Ctl0)
    /\ tasks' = [tasks EXCEPT ![t].pc = "getChainId2"]
    /\ lastStep' = Step("switched", t)
    /\ Queried
    /\ UNCHANGED <<scenario, config, clock>>

\* the flow without its re-check of the chain after the switch
ChainIdRecheckedIgnored(t, afterSwitch) ==
    /\ tasks[t].pc = "getChainId2"
    /\ BeginSend(t)
    /\ lastStep' = [op |-> "rechecked", task |-> t, chainId |-> afterSwitch]
    /\ Queried
    /\ UNCHANGED <<scenario, config, clock>>

\* the getChainId(provider) after the switch returns
ChainIdRechecked(t, afterSwitch) ==
    /\ tasks[t].pc = "getChainId2"
    /\ IF afterSwitch # IntentChainId
       THEN /\ Commit(walletCatch(Ctl0, tasks[t].intent, WalletWrongNetwork))
            /\ tasks' = [tasks EXCEPT ![t] = AfterWalletCatch(Ctl0, @)]
            /\ lastStep' = [op |-> "rechecked", task |-> t, chainId |-> afterSwitch,
                            thrown |-> WalletWrongNetwork, intent |-> tasks[t].intent]
       ELSE /\ BeginSend(t)
            /\ lastStep' = [op |-> "rechecked", task |-> t, chainId |-> afterSwitch]
    /\ Queried
    /\ UNCHANGED <<scenario, config, clock>>

\* sendErc20Transfer returns the transaction hash
SendResolved(t) ==
    /\ tasks[t].pc = "sendTransfer"
    /\ LET txHash == TxHash(t)
           c1 == [Ctl0 EXCEPT !.lastTxHash = txHash]
           c2 == setState(c1, [type |-> "wallet_submitted", intent |-> tasks[t].intent,
                               txHash |-> txHash])
       IN  /\ Commit(startPolling(c2, tasks[t].intent))
           /\ tasks' = [tasks EXCEPT ![t] =
                           AfterStartPolling(c2, [@ EXCEPT !.sent = txHash])]
    /\ lastStep' = Step("sent", t)
    /\ Queried
    /\ UNCHANGED <<scenario, config, clock>>

\* the wallet call the flow is awaiting rejects
WalletRejected(t, err) ==
    /\ tasks[t].pc \in WalletPcs
    /\ WalletThrow(t, "walletRejected", err)
    /\ Queried
    /\ UNCHANGED <<scenario, config, clock>>

(***************************************************************************)
(* The polling loop: waitForFinalStatus with the onUpdate callback of      *)
(* startPolling, and what startPolling does with the loop's result.        *)
(***************************************************************************)
\* onUpdate without its test of the stop flag
onUpdateIgnoresStop(c, pendingSince, intent, now) ==
    IF intent.status = "requires_payment"
    THEN [c |-> setState(c, Waiting(intent, Undefined)), pendingSince |-> Undefined]
    ELSE LET since == IF intent.status = "pending_confirmations" /\ pendingSince = Undefined
                      THEN now ELSE pendingSince
         IN  [c |-> setState(c, Waiting(intent, since)), pendingSince |-> since]

\* onUpdate(intent) at time now, with the closure variable pendingSince;
\* gives the controller and the new pendingSince
\* onUpdate that keeps pendingSince when it sees requires_payment
onUpdateNoReset(c, pendingSince, intent, now) ==
    IF c.stopRequested THEN [c |-> c, pendingSince |-> pendingSince]
    ELSE IF intent.status = "pending_confirmations" THEN
        LET since == IF pendingSince = Undefined THEN now ELSE pendingSince
        IN  IF now - since >= awaitingThresholdMs
            THEN LET c1 == invoke(c, "onAwaitingConfirmation", intent)
                 IN  [c |-> setState(c1, [type |-> "awaiting_confirmation",
                                          intent |-> intent]),
                      pendingSince |-> since]
            ELSE [c |-> setState(c, Waiting(intent, since)), pendingSince |-> since]
    ELSE [c |-> setState(c, Waiting(intent, pendingSince)), pendingSince |-> pendingSince]

onUpdate(c, pendingSince, intent, now) ==
    IF c.stopRequested THEN [c |-> c, pendingSince |-> pendingSince]
    ELSE IF intent.status = "pending_confirmations" THEN
        LET since == IF pendingSince = Undefined THEN now ELSE pendingSince
            elapsed == now - since
        IN  IF elapsed >= awaitingThresholdMs
            THEN LET c1 == invoke(c, "onAwaitingConfirmation", intent)
                 IN  [c |-> setState(c1, [type |-> "awaiting_confirmation",
                                          intent |-> intent]),
                      pendingSince |-> since]
            ELSE [c |-> setState(c, Waiting(intent, since)), pendingSince |-> since]
    ELSE IF intent.status = "requires_payment" THEN
        [c |-> setState(c, Waiting(intent, Undefined)), pendingSince |-> Undefined]
    ELSE
        [c |-> setState(c, Waiting(intent, pendingSince)), pendingSince |-> pendingSince]

\* startPolling after waitForFinalStatus has returned {intent, timedOut}
afterWait(c, finalIntent, timedOut, pendingSince) ==
    IF c.stopRequested THEN c
    ELSE IF finalIntent.status = "succeeded" THEN
        LET c1 == invoke(c, "onSuccess",
                         [tx_hash |-> IF c.lastTxHash # NullHash THEN c.lastTxHash ELSE EmptyHash,
                          intent |-> finalIntent])
        IN  setState(c1, [type |-> "success", intent |-> finalIntent])
    ELSE IF finalIntent.status = "expired" THEN
        setState(c, [type |-> "expired", intent |-> finalIntent])
    ELSE IF timedOut THEN
        IF finalIntent.status = "pending_confirmations"
        THEN LET c1 == invoke(c, "onAwaitingConfirmation", finalIntent)
             IN  setState(c1, [type |-> "awaiting_confirmation", intent |-> finalIntent])
        ELSE setState(c, Waiting(finalIntent, pendingSince))
    ELSE c

\* the catch block of startPolling
pollCatch(c, err) ==
    IF c.stopRequested THEN c
    ELSE LET pub == toPublicError(err)
             c1 == invoke(c, "onError", pub)
         IN  IF c.state.type \in {"waiting", "manual_instructions", "choose_method",
                                  "awaiting_confirmation"}
             THEN setState(c1, [type |-> "error", error |-> pub,
                                lastIntent |-> c.state.intent])
             ELSE setState(c1, [type |-> "error", error |-> pub])

\* what the resolver may answer to the query the loop of t is awaiting
Answers(t) ==
    IF scenario \in Interactive THEN Statuses
    ELSE IF scenario = "pending" THEN {"pending_confirmations"}
    ELSE IF tasks[t].polls <= 3 THEN {"requires_payment"}
    ELSE {"succeeded"}

PollLimit == IF scenario \in Interactive THEN MaxPolls ELSE MaxScriptPolls

\* `Date.now() - start > timeoutMs`
TimedOut(now, start) == now - start > pollTimeoutMs

\* the status test with succeeded left out
IsTerminalExpiredOnly(intent) == intent.status = "expired"

\* the loop's status test
IsTerminal(intent) == intent.status = "succeeded" \/ intent.status = "expired"

\* the resolver query of the loop returns a snapshot
PollResolved(t, status) ==
    /\ tasks[t].pc = "poll_resolve"
    /\ status \in Answers(t)
    /\ LET now == clock + Latency(scenario)
           intent == Intent(status, t, tasks[t].polls)
           u == onUpdate(Ctl0, tasks[t].pendingSince, intent, now)
       IN  /\ clock' = now
           /\ IF IsTerminal(intent)
              THEN /\ Commit(afterWait(u.c, intent, FALSE, u.pendingSince))
                   /\ tasks' = [tasks EXCEPT ![t] = Done(@)]
                   /\ lastStep' = [op |-> "pollResolved", task |-> t, obs |-> intent.obs,
                                   status |-> status,
                                   returned |-> TRUE, timedOut |-> FALSE]
              ELSE IF TimedOut(now, tasks[t].start)
              THEN /\ Commit(afterWait(u.c, intent, TRUE, u.pendingSince))
                   /\ tasks' = [tasks EXCEPT ![t] = Done(@)]
                   /\ lastStep' = [op |-> "pollResolved", task |-> t, obs |-> intent.obs,
                                   status |-> status,
                                   returned |-> TRUE, timedOut |-> TRUE]
              ELSE /\ Commit(u.c)
                   /\ tasks' = [tasks EXCEPT ![t].pc = "poll_sleep",
                                             ![t].pendingSince = u.pendingSince,
                                             ![t].wakeAt = now + pollIntervalMs]
                   /\ lastStep' = [op |-> "pollResolved", task |-> t, obs |-> intent.obs,
                                   status |-> status,
                                   returned |-> FALSE, timedOut |-> FALSE]
    /\ Queried
    /\ UNCHANGED <<scenario, config>>

\* the resolver query of the loop throws
PollRejected(t, err) ==
    /\ tasks[t].pc = "poll_resolve"
    /\ scenario \in Interactive
    /\ Commit(pollCatch(Ctl0, err))
    /\ tasks' = [tasks EXCEPT ![t] = Done(@)]
    /\ lastStep' = [op |-> "pollRejected", task |-> t, thrown |-> err]
    /\ Queried
    /\ UNCHANGED <<scenario, config, clock>>

\* the timer of the loop's sleep fires and the next resolver query is issued
Wake(t) ==
    /\ tasks[t].pc = "poll_sleep"
    /\ clock' = IF clock < tasks[t].wakeAt THEN tasks[t].wakeAt ELSE clock
    /\ Commit(Ctl0)
    /\ tasks' = [tasks EXCEPT ![t].pc = "poll_resolve", ![t].polls = @ + 1,
                              ![t].wakeAt = 0]
    /\ lastStep' = Step("sleepDone", t)
    /\ Queried
    /\ UNCHANGED <<scenario, config>>

\* the same within the number of resolver queries that are followed
SleepDone(t) == queries < PollLimit /\ Wake(t)

(***************************************************************************)
(* keepWaiting()                                                           *)
(***************************************************************************)
KeepWaiting ==
    IF scenario \notin Interactive \/ state.type # "awaiting_confirmation"
    THEN UNCHANGED vars
    ELSE /\ Len(tasks) < TaskLimit
         /\ LET c1 == setState(Ctl0, Waiting(state.intent, clock))
                new == Task("keepWaiting", "new", c1.state.intent)
            IN  /\ Commit(startPolling(c1, c1.state.intent))
                /\ tasks' = Append(tasks, AfterStartPolling(c1, new))
         /\ lastStep' = Step("keepWaiting", Len(tasks) + 1)
         /\ Queried
    /\ UNCHANGED <<scenario, config, clock>>

(***************************************************************************)
(* The specification.                                                      *)
(***************************************************************************)
Next ==
    \/ Open
    \/ \E t \in DOMAIN tasks, status \in OpenStatuses : OpenResolved(t, status)
    \/ \E t \in DOMAIN tasks, err \in ResolverErrors : OpenRejected(t, err)
    \/ Close
    \/ \E method \in Methods : SelectMethod(method)
    \/ \E provider \in BOOLEAN : Continue(provider)
    \/ \E t \in DOMAIN tasks, accounts \in AccountLists : AccountsResolved(t, accounts)
    \/ \E t \in DOMAIN tasks, id \in ChainIds : ChainIdResolved(t, id)
    \/ \E t \in DOMAIN tasks : SwitchResolved(t)
    \/ \E t \in DOMAIN tasks, id \in ChainIds : ChainIdRechecked(t, id)
    \/ \E t \in DOMAIN tasks : SendResolved(t)
    \/ \E t \in DOMAIN tasks, err \in WalletErrors : WalletRejected(t, err)
    \/ \E t \in DOMAIN tasks, status \in Statuses : PollResolved(t, status)
    \/ \E t \in DOMAIN tasks, err \in ResolverErrors : PollRejected(t, err)
    \/ \E t \in DOMAIN tasks : SleepDone(t)
    \/ KeepWaiting

Spec == Init /\ [][Next]_vars

(***************************************************************************)
(* The controller with a UI that subscribes: subscribe(fn) and the handle  *)
(* it returns.  In SpecSub the functions only read the state they are      *)
(* called with.                                                            *)
(***************************************************************************)
\* subscribe(fn): add fn, call it with the current state, return a handle.
\* When the call throws, no handle is returned and fn stays registered.
subscribe(c, fn) ==
    LET added == [c EXCEPT !.listeners = IF Has(c, fn) THEN @ ELSE Append(@, fn)]
        called == callback(added, fn, c.state)
    IN  IF called.threw THEN called
        ELSE [called EXCEPT !.handles[fn] = @ + 1]

\* Cleanup and Evict are subscribed once by the modal that defines them,
\* Evict after the render function whose handle it holds.
Subscribe(fn) ==
    /\ handles[fn] < MaxHandles
    /\ (fn \notin ListenerIds) => ~Registered(fn)
    /\ (fn = Evict) => handles[1] > 0
    /\ Commit(subscribe(Ctl0, fn))
    /\ lastStep' = [op |-> "subscribe", task |-> 0, fn |-> fn]
    /\ UNCHANGED <<scenario, config, clock, tasks, queries>>

\* a handle that subscribe(fn) returned is called by the UI
Unsubscribe(fn) ==
    /\ handles[fn] > 0
    /\ Commit(unsubscribe(Ctl0, fn))
    /\ lastStep' = [op |-> "unsubscribe", task |-> 0, fn |-> fn]
    /\ UNCHANGED <<scenario, config, clock, tasks, queries>>

\* the default configuration, with a resolver slow enough for the escalation
\* to awaiting_confirmation
InitSub ==
    /\ Init
    /\ scenario = "slow"
    /\ config = Constructor([allowManual |-> "absent", allowWallet |-> "absent",
                             defaultMethod |-> "absent"])

NextSub ==
    \/ Next
    \/ \E fn \in ListenerIds : Subscribe(fn)
    \/ \E fn \in ListenerIds : Unsubscribe(fn)

SpecSub == InitSub /\ [][NextSub]_vars

(***************************************************************************)
(* The controller up to the choice of a method, with a UI whose functions  *)
(* call handles from inside their calls.                                   *)
(***************************************************************************)
NextUi ==
    \/ Open
    \/ \E t \in DOMAIN tasks, status \in OpenStatuses : OpenResolved(t, status)
    \/ \E t \in DOMAIN tasks, err \in ResolverErrors : OpenRejected(t, err)
    \/ Close
    \/ \E method \in Methods : SelectMethod(method)
    \/ \E fn \in Functions : Subscribe(fn)
    \/ \E fn \in ListenerIds : Unsubscribe(fn)

SpecUi == InitSub /\ [][NextUi]_vars

(***************************************************************************)
(* toPublicError on its own, over thrown values of every shape.            *)
(***************************************************************************)
\* the numeric codes tried: the three listed ones, an unlisted JSON-RPC
\* code, zero and a negative neighbour of a listed one
NumericCodes == {4001, -32002, 4902, -32603, 0, -4001}

StringCodes == {"4001", "network_error"}

Messages == {"", " ", "boom"}

\* one `code` property: a number, a string or none; a message that is not
\* a string has no text
ThrownValues ==
    {e \in {Thrown(ct, cn, cs, r, mt, m, ie) :
                ct \in {"number", "string", "undefined"}, cn \in NumericCodes,
                cs \in StringCodes \cup {""}, r \in {"undefined", "true", "false"},
                mt \in {"string", "undefined"}, m \in Messages, ie \in BOOLEAN} :
        /\ (e.codeType # "number") => e.codeNum = 0
        /\ (e.codeType = "string") = (e.codeStr # "")
        /\ (e.msgType # "string") => e.message = ""}

InitErr ==
    /\ Constructed
    /\ scenario = "fast"
    /\ config = Constructor([allowManual |-> "absent", allowWallet |-> "absent",
                             defaultMethod |-> "absent"])
    /\ lastStep \in {[op |-> "throw", task |-> 0, thrown |-> e] : e \in ThrownValues}

\* const pub = toPublicError(err)
Normalize ==
    /\ lastStep.op = "throw"
    /\ lastStep' = [op |-> "toPublicError", task |-> 0, thrown |-> lastStep.thrown,
                    result |-> toPublicError(lastStep.thrown)]
    /\ UNCHANGED <<scenario, config, state, isRunning, stopRequested, lastTxHash,
                   clock, tasks, queries, emitted, fired, calls,
                   listeners, handles, received, seen, threw>>

NextErr == Normalize

SpecErr == InitErr /\ [][NextErr]_vars

(***************************************************************************)
(* resolveIntent on its own: the HTTP status and the JSON body of the      *)
(* response decide what it returns or throws.                              *)
(***************************************************************************)
\* the keys resolveIntent requires, in the order it tests them
Required ==
    <<"id", "status", "mode", "chain", "chain_id", "confirmations_required",
      "amount_units", "decimals", "token_symbol", "token_address",
      "expected_wallet", "expires_at", "lane", "metadata">>

RequiredKeys == {Required[i] : i \in DOMAIN Required}

\* the camelCase key normalizeResolvedIntent reads when the snake_case key
\* is null or undefined
Alias(k) ==
    CASE k = "chain_id" -> "chainId"
      [] k = "confirmations_required" -> "confirmationsRequired"
      [] k = "amount_units" -> "amountUnits"
      [] k = "token_symbol" -> "tokenSymbol"
      [] k = "token_address" -> "tokenAddress"
      [] k = "expected_wallet" -> "expectedWallet"
      [] k = "expires_at" -> "expiresAt"
      [] OTHER -> "none"

AliasKeys == {Alias(k) : k \in RequiredKeys} \ {"none"}

\* a property of the body: absent, null, a falsy value such as "" or 0, or
\* any other value
Properties == {"missing", "null", "falsy", "value"}

\* how many properties of a body differ from the complete snake_case body
MaxDefects == 2

\* the complete body the API sends
Complete == [k \in RequiredKeys \cup AliasKeys |-> IF k \in RequiredKeys THEN "value" ELSE "missing"]

\* a body without any property; also stands for a body that is not an
\* object or not JSON, which normalizeResolvedIntent treats alike
Empty == [k \in RequiredKeys \cup AliasKeys |-> "missing"]

Bodies ==
    {Empty} \cup
    {[k \in DOMAIN Complete |-> IF k \in DOMAIN d THEN d[k] ELSE Complete[k]] :
        d \in UNION {[ks -> Properties] :
                        ks \in {x \in SUBSET DOMAIN Complete : Cardinality(x) <= MaxDefects}}}

\* the HTTP statuses with a branch of their own, another 2xx, another 4xx
\* and another 5xx
HttpStatuses == {200, 201, 400, 404, 410, 418, 429, 500, 503}

\* a ?? b
Coalesce(a, b) == IF a \in {"missing", "null"} THEN b ELSE a

normalizeResolvedIntent(raw) ==
    LET normalized ==
            [k \in RequiredKeys |->
                IF k = "metadata" THEN Coalesce(raw[k], "value")
                ELSE IF Alias(k) # "none" THEN Coalesce(raw[k], raw[Alias(k)])
                ELSE raw[k]]
    IN  [normalized EXCEPT
            !["metadata"] = IF @ \in {"missing", "null", "falsy"} THEN "value" ELSE @,
            !["lane"] = IF @ \in {"missing", "null", "falsy"} THEN "value" ELSE @]

\* the loop over `required`: the first key that is undefined or null
RECURSIVE firstMissing(_, _)
firstMissing(intent, i) ==
    IF i > Len(Required) THEN "none"
    ELSE IF intent[Required[i]] \in {"missing", "null"} THEN Required[i]
    ELSE firstMissing(intent, i + 1)

Returned(intent) == [ok |-> TRUE, intent |-> intent]

Rejected(err) == [ok |-> FALSE, thrown |-> err]

\* the branches of resolveIntent on res.status, then the validation of
\* `intent`; the message of server_error is written without its status
validated(status, intent) ==
    IF status = 400
    THEN Rejected(KryptoPayError("invalid_body", "Invalid request body for resolve endpoint.", FALSE))
    ELSE IF status = 404
    THEN Rejected(KryptoPayError("intent_not_found", "Payment intent not found.", FALSE))
    ELSE IF status = 410
    THEN Rejected(KryptoPayError("intent_expired", "Payment intent has expired.", FALSE))
    ELSE IF status = 429
    THEN Rejected(KryptoPayError("rate_limited", "Too many requests. Please try again shortly.", TRUE))
    ELSE IF ~(status >= 200 /\ status <= 299)
    THEN Rejected(KryptoPayError("server_error", "Server error while resolving payment intent.",
                                 status >= 500))
    ELSE LET k == firstMissing(intent, 1) IN
         IF k # "none"
         THEN Rejected(KryptoPayError("invalid_response",
                                      "Resolve endpoint response missing field: " \o k, FALSE))
         ELSE Returned(intent)

\* resolveIntent of core/http.ts, after the fetch
resolveIntent(status, payload) == validated(status, normalizeResolvedIntent(payload))

\* the copy of resolveIntent that validates the payload as it is
resolveIntentAsSent(status, payload) ==
    validated(status, [k \in RequiredKeys |-> payload[k]])

InitHttp ==
    /\ Constructed
    /\ scenario = "fast"
    /\ config = Constructor([allowManual |-> "absent", allowWallet |-> "absent",
                             defaultMethod |-> "absent"])
    /\ lastStep \in {[op |-> "respond", task |-> 0, status |-> st, payload |-> b] :
                        st \in HttpStatuses, b \in Bodies}

ResolveIntent ==
    /\ lastStep.op = "respond"
    /\ lastStep' = [op |-> "resolveIntent", task |-> 0, status |-> lastStep.status,
                    payload |-> lastStep.payload,
                    result |-> resolveIntent(lastStep.status, lastStep.payload)]
    /\ UNCHANGED <<scenario, config, state, isRunning, stopRequested, lastTxHash,
                   clock, tasks, queries, emitted, fired, calls,
                   listeners, handles, received, seen, threw>>

ResolveIntentAsSent ==
    /\ lastStep.op = "respond"
    /\ lastStep' = [op |-> "resolveIntentAsSent", task |-> 0, status |-> lastStep.status,
                    payload |-> lastStep.payload,
                    result |-> resolveIntentAsSent(lastStep.status, lastStep.payload)]
    /\ UNCHANGED <<scenario, config, state, isRunning, stopRequested, lastTxHash,
                   clock, tasks, queries, emitted, fired, calls,
                   listeners, handles, received, seen, threw>>

NextHttp == ResolveIntent \/ ResolveIntentAsSent

SpecHttp == InitHttp /\ [][NextHttp]_vars

(***************************************************************************)
(* Properties.                                                             *)
(***************************************************************************)
\* the last step was a step of a polling loop
PollStep == lastStep.op \in {"pollResolved", "pollRejected", "sleepDone"}

\* the last step threw into the catch block of startWalletFlow
WalletFailed == lastStep.op \in {"continue", "accounts", "rechecked", "walletRejected"}
                 /\ "thrown" \in DOMAIN lastStep

\* the error the last step normalized
Pub == toPublicError(lastStep.thrown)

\* C1: while the stop flag is set (close() was called and open() was not
\* called since), a step of a polling loop publishes no state and invokes no
\* callback, whatever the resolver returned or threw.
C1_StoppedLoopIsSilent ==
    (PollStep /\ stopRequested) => (emitted = << >> /\ fired = << >>)

\* a loop saw a terminal status after close() and returned
C1_Witness ==
    /\ lastStep.op = "pollResolved" /\ lastStep.returned /\ ~lastStep.timedOut
    /\ stopRequested
    /\ state.type = "idle"

\* C2: whatever the state close() is called in, getState() is idle when it
\* returns and onClose was invoked exactly once during the call.
C2_CloseGoesIdle ==
    lastStep.op = "close" =>
        /\ state = [type |-> "idle"]
        /\ fired = <<[cb |-> "onClose", arg |-> "none"]>>
        /\ emitted = <<[type |-> "idle"]>>

\* close() was called while a wallet transfer was awaited
C2_Witness == lastStep.op = "close" /\ lastStep.from = "wallet_sending"

\* C3: a close() right after a close() publishes no state, does not invoke
\* onClose again and leaves the state as it is.
C3_SecondCloseSilent ==
    [][(lastStep.op = "close" /\ lastStep'.op = "close")
         => (emitted' = << >> /\ fired' = << >> /\ state' = state)]_vars

\* C4: with a resolver that answers pending_confirmations at once on every
\* poll, onAwaitingConfirmation is invoked at most once by the loop, and only
\* on its 24th or 25th observation.
C4_EscalatesOnce ==
    scenario = "pending" =>
        /\ calls.onAwaitingConfirmation <= 1
        /\ Count(fired, "onAwaitingConfirmation") > 0 => lastStep.obs \in {24, 25}

\* C5: with a resolver that answers requires_payment on 3 polls and succeeded
\* on the next, the loop returns on its 4th observation (never before, and
\* there is no 5th query) with timedOut = false, the controller is then in
\* success with that 4th snapshot, and onSuccess is invoked exactly once.
C5_SucceedsOnFourth ==
    scenario = "req3succ" =>
        /\ \A t \in DOMAIN tasks : tasks[t].polls <= 4
        /\ (lastStep.op = "pollResolved" /\ lastStep.returned) =>
               /\ lastStep.obs = 4
               /\ ~lastStep.timedOut
               /\ emitted[Len(emitted)] =
                      [type |-> "success", intent |-> Intent("succeeded", lastStep.task, 4)]
               /\ Count(fired, "onSuccess") = 1
        /\ calls.onSuccess <= 1
        /\ state.type = "success" =>
               /\ state.intent = Intent("succeeded", state.intent.by, 4)
               /\ calls.onSuccess = 1
               /\ \A t \in DOMAIN tasks : tasks[t].pc = "done"

C5_Witness == scenario = "req3succ" /\ state.type = "success" /\ calls.onSuccess = 1

\* what the fallback publishes first: choose_method with manual selected and
\* the normalized message as banner, then manual_instructions
FallbackPrefix ==
    /\ Len(emitted) >= 2
    /\ emitted[1] = [type |-> "choose_method", intent |-> lastStep.intent,
                     selected |-> "manual", message |-> Pub.message]
    /\ emitted[2] = [type |-> "manual_instructions", intent |-> lastStep.intent]
    /\ \A i \in DOMAIN emitted : emitted[i].type # "error"
    /\ fired = << >>

\* C6 as stated: a failed wallet step with manual payment enabled publishes
\* choose_method (manual, banner), manual_instructions and waiting, invokes
\* no onError, and polling starts.
C6_FallbackAlwaysPolls ==
    (WalletFailed /\ config.allowManual) =>
        /\ FallbackPrefix
        /\ emitted = SubSeq(emitted, 1, 2) \o <<Waiting(lastStep.intent, Undefined)>>
        /\ tasks[lastStep.task].pc = "poll_resolve"

\* C6 amended: a failed wallet step with manual payment enabled publishes
\* choose_method (manual, banner) and manual_instructions and invokes no
\* onError; with the stop flag clear it then publishes waiting and polling
\* starts, with the stop flag set (close() came while the wallet call was in
\* flight) it publishes nothing more and no polling starts.
C6_FallbackPollsUnlessStopped ==
    (WalletFailed /\ config.allowManual) =>
        /\ FallbackPrefix
        /\ IF stopRequested
           THEN /\ Len(emitted) = 2
                /\ tasks[lastStep.task].pc = "done"
           ELSE /\ emitted = SubSeq(emitted, 1, 2) \o <<Waiting(lastStep.intent, Undefined)>>
                /\ tasks[lastStep.task].pc = "poll_resolve"

\* the chain switch was refused with 4902 and the flow fell back to manual
C6_Witness ==
    /\ WalletFailed /\ config.allowManual /\ ~stopRequested
    /\ lastStep.thrown.codeNum = 4902
    /\ emitted[1].message = toPublicError(ProviderError(4902, "undefined", "")).message
    /\ state.type = "waiting"
    /\ tasks[lastStep.task].pc = "poll_resolve"

\* C7: a failed wallet step with manual payment disabled leaves the
\* controller in error with the normalized error and the intent the flow was
\* started with (the snapshot open() resolved), invokes onError exactly once
\* with that error, and starts no polling; {code: 4001} is normalized to
\* wallet_user_rejected, recoverable.
C7_WalletErrorSurfaced ==
    (WalletFailed /\ ~config.allowManual) =>
        /\ state = [type |-> "error", error |-> Pub, lastIntent |-> lastStep.intent]
        /\ lastStep.intent.obs = 0
        /\ emitted = <<state>>
        /\ fired = <<[cb |-> "onError", arg |-> state.error]>>
        /\ tasks[lastStep.task].pc = "done"
        /\ (lastStep.thrown.codeType = "number" /\ lastStep.thrown.codeNum = 4001) =>
               /\ state.error.code = "wallet_user_rejected"
               /\ state.error.recoverable

C7_Witness ==
    /\ WalletFailed /\ ~config.allowManual
    /\ lastStep.thrown.codeNum = 4001
    /\ state.type = "error" /\ state.error.code = "wallet_user_rejected"

\* the thrown value has the structured shape: code a string, recoverable a
\* boolean
Structured(err) == err.codeType = "string" /\ err.recoverable \in {"true", "false"}

\* C8: toPublicError gives a structured error back with the same code and
\* the same recoverable flag.
C8_StructuredUnchanged ==
    \A i \in DOMAIN fired :
        (fired[i].cb = "onError" /\ Structured(lastStep.thrown)) =>
            /\ fired[i].arg.code = lastStep.thrown.codeStr
            /\ fired[i].arg.recoverable = (lastStep.thrown.recoverable = "true")

\* C9: when the resolver call of open() fails, the error state and the
\* argument of onError carry the code and the recoverable flag of the
\* resolver's error.
C9_OpenErrorKeepsRecoverable ==
    lastStep.op = "openRejected" =>
        /\ state.type = "error"
        /\ state.error.code = lastStep.thrown.codeStr
        /\ state.error.recoverable = (lastStep.thrown.recoverable = "true")
        /\ fired[1].arg.code = lastStep.thrown.codeStr
        /\ fired[1].arg.recoverable = (lastStep.thrown.recoverable = "true")

\* C10: when the resolver call of open() fails, that step publishes the error
\* state and nothing else (no choose_method, no manual fallback), the error
\* state has no lastIntent, onError is invoked exactly once with the error
\* the state carries, and open() has returned.
C10_OpenFailureSurfaced ==
    lastStep.op = "openRejected" =>
        /\ state.type = "error"
        /\ DOMAIN state = {"type", "error"}
        /\ emitted = <<state>>
        /\ fired = <<[cb |-> "onError", arg |-> state.error]>>
        /\ tasks[lastStep.task].pc = "done"

C10_Witness ==
    /\ lastStep.op = "openRejected"
    /\ state.type = "error" /\ state.error.code = "intent_not_found"
    /\ calls.onError = 1

\* C11: in a session (open() without a close()), the state success comes with
\* exactly one onSuccess invocation and no onError, the state error with
\* exactly one onError invocation and no onSuccess, and the state expired
\* with neither, whatever the session went through before.
C11_OneCallbackPerOutcome ==
    calls.onClose = 0 =>
        /\ (state.type = "success") => (calls.onSuccess = 1 /\ calls.onError = 0)
        /\ (state.type = "error") => (calls.onError = 1 /\ calls.onSuccess = 0)
        /\ (state.type = "expired") => (calls.onSuccess = 0 /\ calls.onError = 0)

\* C12: once a running session (open() was called, close() was not called
\* since) is in success, expired or error, a step that is not close()
\* publishes no state and leaves the state as it is.
C12_TerminalAbsorbing ==
    [][(isRunning /\ state.type \in {"success", "expired", "error"})
         => (lastStep'.op = "close" \/ (emitted' = << >> /\ state' = state))]_vars

\* C13: while the stop flag is set, a polling loop whose resolver query
\* resolves returns (it does not go to sleep), and no loop ends a sleep by
\* issuing another resolver query.
C13_LoopCancellable ==
    stopRequested =>
        /\ lastStep.op # "sleepDone"
        /\ (lastStep.op = "pollResolved") => lastStep.returned

\* C14 as stated: subscribe(fn) calls fn with the current state before it
\* returns, and as long as a handle that a subscribe(fn) call returned was
\* not called, every step calls fn with exactly the states it publishes, in
\* order.
C14_DeliveredUntilHandleCalled ==
    \A fn \in ListenerIds :
        /\ (lastStep.op = "subscribe" /\ lastStep.fn = fn) => received[fn] = <<state>>
        /\ (lastStep.op # "subscribe" /\ handles[fn] > 0) => received[fn] = emitted

\* C14 amended: subscribe(fn) registers fn and calls it with the current
\* state before it returns, without changing the state; calling a handle
\* that a subscribe(fn) call returned removes fn, whatever other handles
\* for fn exist; no other step changes the registry; and every other step
\* calls each registered fn with exactly the states it publishes, in order,
\* and calls no fn that is not registered.
C14_DeliveredWhileRegistered ==
    [][\A fn \in ListenerIds :
          LET after == \E i \in DOMAIN listeners' : listeners'[i] = fn IN
          /\ (lastStep'.op = "subscribe" /\ lastStep'.fn = fn) =>
                (after /\ received'[fn] = <<state>> /\ state' = state)
          /\ (lastStep'.op = "unsubscribe" /\ lastStep'.fn = fn) =>
                (~after /\ received'[fn] = << >>)
          /\ (lastStep'.op \notin {"subscribe", "unsubscribe"}) =>
                /\ listeners' = listeners
                /\ received'[fn] = IF Registered(fn) THEN emitted' ELSE << >>]_vars

\* a function subscribed twice was called with the three states of the
\* manual fallback
C14_Witness ==
    /\ handles[1] = 2 /\ Registered(1)
    /\ Len(emitted) = 3
    /\ received[1] = emitted

\* C15: the state getState() returns is the state each registered function
\* was last called with.
C15_NoDrift == \A fn \in ListenerIds : Registered(fn) => seen[fn] = state

C15_Witness ==
    /\ Registered(1)
    /\ state.type = "awaiting_confirmation"
    /\ seen[1] = state

\* C16: while the controller is running (open() was called and close() was
\* not called since), open() publishes nothing, changes no field and starts
\* no resolver call, also while the first open() still awaits the resolver.
C16_OpenWhileRunningIsNoOp ==
    [][isRunning =>
          /\ open(Ctl0) = Ctl0
          /\ ~(Len(tasks') > Len(tasks) /\ tasks'[Len(tasks')].kind = "open")]_vars

\* the controller is running and its open() still awaits the resolver
C16_Witness ==
    /\ isRunning
    /\ state.type = "loading_intent"
    /\ \E t \in DOMAIN tasks : tasks[t].pc = "open_resolve"

\* C17: the open() that starts a session publishes loading_intent and
\* nothing else and issues one resolver call; when that call returns a
\* snapshot, open() publishes choose_method with that snapshot, the method
\* of the selection policy and no message, invokes no callback and returns
\* without another resolver call; with nothing else invoked in between the
\* state stays loading_intent.
C17_OpenPublishesTwoStates ==
    /\ (lastStep.op = "open") =>
           /\ emitted = <<[type |-> "loading_intent"]>>
           /\ fired = << >>
           /\ tasks[lastStep.task] = [Task("open", "open_resolve", NoIntent)
                                         EXCEPT !.session = calls.onClose]
    /\ (lastStep.op = "openResolved") =>
           /\ emitted = <<[type |-> "choose_method",
                           intent |-> Intent("requires_payment", lastStep.task, 0),
                           selected |-> getInitialMethod]>>
           /\ fired = << >>
           /\ tasks[lastStep.task].pc = "done"
    /\ (Len(tasks) = 1 /\ tasks[1].pc = "open_resolve" /\ calls.onClose = 0) =>
           state = [type |-> "loading_intent"]

C17_Witness ==
    /\ lastStep.op = "openResolved"
    /\ state.type = "choose_method"
    /\ state.selected = "manual"
    /\ state.intent = Intent("requires_payment", 1, 0)

\* C18: for every set of options with at least one method enabled, the
\* method selected in the choose_method that open() publishes is the default
\* method the options ask for if that method is enabled, otherwise the
\* enabled one, wallet preferred; so it is an enabled method.
C18_SelectedFollowsPolicy ==
    (lastStep.op = "openResolved") =>
        \A o \in ValidOptions :
            (Constructor(o) = config) =>
                LET r == Requested(o)
                    enabled(m) == IF m = "wallet" THEN r.allowWallet ELSE r.allowManual
                    expected == IF enabled(r.defaultMethod) THEN r.defaultMethod
                                ELSE IF r.allowWallet THEN "wallet" ELSE "manual"
                IN  state.selected = expected /\ enabled(state.selected)

\* C19: selectMethod(m) changes nothing and publishes nothing when the state
\* is not choose_method or m is disabled; otherwise it publishes one state,
\* the current choose_method with selected = m and every other field as it
\* was, invokes no callback and starts no resolver or wallet call.
C19_SelectMethodFrame ==
    [][/\ \A m \in Methods :
             \/ /\ state.type = "choose_method"
                /\ IF m = "wallet" THEN config.allowWallet ELSE config.allowManual
             \/ selectMethod(Ctl0, m) = Ctl0
       /\ (lastStep'.op = "selectMethod") =>
             /\ state.type = "choose_method"
             /\ IF lastStep'.method = "wallet" THEN config.allowWallet ELSE config.allowManual
             /\ state' = [state EXCEPT !.selected = lastStep'.method]
             /\ emitted' = <<state'>>
             /\ fired' = << >>
             /\ UNCHANGED <<config, isRunning, stopRequested, lastTxHash, clock,
                            tasks, queries, calls>>]_vars

\* wallet was selected again where manual is disabled
C19_Witness ==
    /\ lastStep.op = "selectMethod" /\ lastStep.method = "wallet"
    /\ ~config.allowManual
    /\ state.type = "choose_method" /\ state.selected = "wallet"

\* C20: in choose_method with both methods enabled, selectMethod("wallet")
\* followed at once by selectMethod("manual") publishes exactly two states,
\* choose_method with wallet and then choose_method with manual, leaves the
\* controller in the second one and does nothing else.
C20_ToggleRoundTrip ==
    (state.type = "choose_method" /\ config.allowWallet /\ config.allowManual) =>
        LET c == selectMethod(selectMethod(Ctl0, "wallet"), "manual") IN
        /\ c.state = [state EXCEPT !.selected = "manual"]
        /\ c.emitted = <<[state EXCEPT !.selected = "wallet"],
                         [state EXCEPT !.selected = "manual"]>>
        /\ c.fired = << >>
        /\ [c EXCEPT !.state = state, !.emitted = << >>,
                     !.received = Ctl0.received] = Ctl0

C20_Witness ==
    /\ lastStep.op = "selectMethod" /\ lastStep.method = "manual"
    /\ config.allowWallet /\ config.allowManual /\ config.defaultMethod = "wallet"
    /\ state.type = "choose_method" /\ state.selected = "manual"

\* C21: continue() starts nothing and publishes nothing unless the state is
\* choose_method; in choose_method with selected = manual it publishes
\* manual_instructions and then waiting, both with the intent of
\* choose_method, invokes no callback and its next await is the first
\* resolver query of the polling loop, not a wallet call.
C21_ContinueManual ==
    [][LET n == Len(tasks') IN
       (n = Len(tasks) + 1 /\ tasks'[n].kind = "continue") =>
           /\ state.type = "choose_method"
           /\ (state.selected = "manual") =>
                  /\ emitted' = <<[type |-> "manual_instructions", intent |-> state.intent],
                                  Waiting(state.intent, Undefined)>>
                  /\ fired' = << >>
                  /\ tasks'[n].pc = "poll_resolve"]_vars

\* C22: keepWaiting() starts nothing and publishes nothing unless the state
\* is awaiting_confirmation; in awaiting_confirmation it leaves the
\* controller in waiting with pendingConfirmationsSince = now and its loop
\* running, and as long as that loop runs onAwaitingConfirmation is not
\* invoked before a full threshold has passed since the call.
C22_KeepWaitingRestarts ==
    [][LET n == Len(tasks') IN
       /\ (n = Len(tasks) + 1 /\ tasks'[n].kind = "keepWaiting") =>
              /\ state.type = "awaiting_confirmation"
              /\ state' = Waiting(state.intent, clock)
              /\ tasks'[n].pc = "poll_resolve"
       /\ (Count(fired', "onAwaitingConfirmation") > 0) =>
              \A t \in DOMAIN tasks :
                  (tasks[t].kind = "keepWaiting" /\ tasks[t].pc # "done") =>
                      clock' - tasks[t].start >= awaitingThresholdMs]_vars

\* C23: when a resolver query of a polling loop throws while the stop flag
\* is clear, the step publishes exactly the error state with the normalized
\* error and, as lastIntent, the intent of the state it replaces, and
\* invokes onError exactly once with that error; while the stop flag is set
\* it publishes nothing and invokes nothing.
C23_PollFailureSurfaced ==
    [][(lastStep'.op = "pollRejected") =>
          IF stopRequested
          THEN emitted' = << >> /\ fired' = << >> /\ state' = state
          ELSE LET pub == toPublicError(lastStep'.thrown) IN
               /\ state'.type = "error"
               /\ state'.error = pub
               /\ ("intent" \in DOMAIN state) =>
                      state' = [type |-> "error", error |-> pub, lastIntent |-> state.intent]
               /\ emitted' = <<state'>>
               /\ fired' = <<[cb |-> "onError", arg |-> pub]>>]_vars

\* C24: when a publication removes a function from the registry (a
\* function calls its own handle or another function's handle from inside
\* its call) and no registered function reads a handle that was never
\* returned, the publication does not throw and every function still
\* registered afterwards is called exactly once with each state published;
\* and, outside subscribe(fn) itself, a function that is not registered is
\* never called.
C24_RemovalDuringPublication ==
    [][LET after(fn) == \E i \in DOMAIN listeners' : listeners'[i] = fn IN
       /\ (/\ lastStep'.op \notin {"subscribe", "unsubscribe"}
           /\ \E fn \in Functions : Registered(fn) /\ ~after(fn)
           /\ ~(Registered(Cleanup) /\ handles[Cleanup] = 0)) =>
              /\ ~threw'
              /\ emitted' # << >>
              /\ \A fn \in Functions :
                    /\ after(fn) => received'[fn] = emitted'
                    /\ Len(received'[fn]) <= Len(emitted')
       /\ \A fn \in Functions :
              (~Registered(fn) /\ ~(lastStep'.op = "subscribe" /\ lastStep'.fn = fn)) =>
                  received'[fn] = << >>]_vars

\* close() published idle: Cleanup was called with it and removed itself,
\* and the render function, still registered, was called with it as well
C24_Witness ==
    /\ lastStep.op = "close"
    /\ ~threw
    /\ emitted = <<[type |-> "idle"]>>
    /\ ~Registered(Cleanup) /\ received[Cleanup] = emitted
    /\ Registered(1) /\ received[1] = emitted

\* C25: toPublicError classifies a thrown value whose code is a number by
\* the value of the code: 4001 gives wallet_user_rejected, -32002
\* wallet_request_pending, 4902 wallet_chain_not_added and every other
\* number wallet_error, each with recoverable = true, whatever the other
\* properties of the value are.
C25_NumericCodesByValue ==
    (lastStep.op = "toPublicError" /\ lastStep.thrown.codeType = "number") =>
        LET n == lastStep.thrown.codeNum
            pub == lastStep.result IN
        /\ pub.code = IF n = 4001 THEN "wallet_user_rejected"
                      ELSE IF n = -32002 THEN "wallet_request_pending"
                      ELSE IF n = 4902 THEN "wallet_chain_not_added"
                      ELSE "wallet_error"
        /\ pub.recoverable = TRUE
        /\ pub.code \notin {"unknown_error", lastStep.thrown.codeStr}

\* an Error instance with code -32002 and recoverable false was normalized
C25_Witness ==
    /\ lastStep.op = "toPublicError"
    /\ lastStep.thrown.codeType = "number"
    /\ lastStep.thrown.codeNum = -32002
    /\ lastStep.thrown.recoverable = "false"
    /\ lastStep.thrown.isError
    /\ lastStep.result.code = "wallet_request_pending"

\* C26: resolveIntent returns only intents in which every required field
\* has a value, and for a 2xx response whose body lacks one of the 14
\* required fields, or has null for it, it throws invalid_response with
\* recoverable = false and returns nothing.
C26_MissingFieldRejected ==
    (lastStep.op \in {"resolveIntent", "resolveIntentAsSent"}) =>
        /\ lastStep.result.ok =>
               \A k \in RequiredKeys : lastStep.result.intent[k] \notin {"missing", "null"}
        /\ (/\ lastStep.status >= 200 /\ lastStep.status <= 299
            /\ \E k \in RequiredKeys : lastStep.payload[k] \in {"missing", "null"}) =>
               /\ ~lastStep.result.ok
               /\ lastStep.result.thrown.codeStr = "invalid_response"
               /\ lastStep.result.thrown.recoverable = "false"

\* C27: when a polling loop returns with timedOut = true while the stop
\* flag is clear, the loop ends; if the status it observed last is
\* pending_confirmations the controller is left in awaiting_confirmation
\* with that snapshot and the step invokes onAwaitingConfirmation once, not
\* a second time when the loop has invoked it already; otherwise the
\* controller is left in waiting with that snapshot and nothing is invoked.
C27_TimeoutOutcome ==
    [][(lastStep'.op = "pollResolved" /\ lastStep'.timedOut /\ ~stopRequested) =>
          LET t == lastStep'.task
              observed == emitted'[1].intent IN
          /\ tasks'[t].pc = "done"
          /\ lastStep'.returned
          /\ observed = Intent(observed.status, t, lastStep'.obs)
          /\ state'.intent = observed
          /\ IF observed.status = "pending_confirmations"
             THEN /\ state'.type = "awaiting_confirmation"
                  /\ Count(fired', "onAwaitingConfirmation") = 1
             ELSE /\ state'.type = "waiting"
                  /\ fired' = << >>]_vars

WalletHappySteps ==
    LET t == lastStep'.task
        failed == "thrown" \in DOMAIN lastStep'
        intent == tasks[t].intent
        sending == [type |-> "wallet_sending", intent |-> intent, from |-> tasks'[t].from] IN
    /\ (/\ Len(tasks') = Len(tasks) + 1
        /\ tasks'[Len(tasks')].pc = "requestAccounts") =>
           /\ emitted' = <<[type |-> "wallet_connecting", intent |-> state.intent]>>
           /\ tasks'[Len(tasks')].intent = state.intent
    /\ (lastStep'.op = "accounts" /\ ~failed) =>
           /\ emitted' = << >>
           /\ tasks'[t].from = lastStep'.accounts[1]
           /\ tasks'[t].pc = "getChainId"
    /\ (lastStep'.op = "chainId") =>
           IF lastStep'.chainId # IntentChainId
           THEN /\ emitted' = <<[type |-> "wallet_switching_chain", intent |-> intent]>>
                /\ tasks'[t].pc = "switchChain"
           ELSE /\ emitted' = <<sending>>
                /\ tasks'[t].pc = "sendTransfer"
    /\ (lastStep'.op = "switched") =>
           /\ emitted' = << >>
           /\ tasks'[t].pc = "getChainId2"
    /\ (lastStep'.op = "rechecked" /\ ~failed) =>
           /\ emitted' = <<sending>>
           /\ tasks'[t].pc = "sendTransfer"
    /\ (lastStep'.op \in {"accounts", "chainId", "switched", "rechecked"} /\ ~failed) =>
           /\ fired' = << >>
           /\ tasks'[t].intent = intent
           /\ tasks'[t].from = IF lastStep'.op = "accounts" THEN tasks'[t].from ELSE tasks[t].from
    /\ (lastStep'.op = "sent") => fired' = << >>

\* C29 as stated: a wallet flow whose wallet calls all succeed publishes
\* wallet_connecting, wallet_switching_chain exactly when the chain read
\* differs from the intent's, wallet_sending with the first account
\* returned, and, when the transfer returns, wallet_submitted with its hash
\* and then waiting; all with the intent continue() started from, and
\* nothing else.
C29_HappyPathOrder ==
    [][/\ WalletHappySteps
       /\ (lastStep'.op = "sent") =>
              LET t == lastStep'.task IN
              /\ emitted' = <<[type |-> "wallet_submitted", intent |-> tasks[t].intent,
                               txHash |-> TxHash(t)],
                              Waiting(tasks[t].intent, Undefined)>>
              /\ tasks'[t].pc = "poll_resolve"]_vars

\* C29 amended: as above, except that when the transfer returns while the
\* stop flag is set, wallet_submitted is the last state published and no
\* polling starts.
C29_HappyPathUnlessStopped ==
    [][/\ WalletHappySteps
       /\ (lastStep'.op = "sent") =>
              LET t == lastStep'.task
                  submitted == [type |-> "wallet_submitted", intent |-> tasks[t].intent,
                                txHash |-> TxHash(t)] IN
              IF stopRequested
              THEN emitted' = <<submitted>> /\ tasks'[t].pc = "done"
              ELSE /\ emitted' = <<submitted, Waiting(tasks[t].intent, Undefined)>>
                   /\ tasks'[t].pc = "poll_resolve"]_vars

\* the transfer returned with the stop flag clear: wallet_submitted with
\* the hash, then waiting with the same intent, and the loop's first query
C29_Witness ==
    /\ lastStep.op = "sent"
    /\ ~stopRequested
    /\ Len(emitted) = 2
    /\ emitted[1].type = "wallet_submitted" /\ emitted[1].txHash = lastTxHash
    /\ state = Waiting(emitted[1].intent, Undefined)
    /\ lastTxHash = TxHash(lastStep.task)
    /\ tasks[lastStep.task].pc = "poll_resolve"

\* C30: an invocation of continue() submits the transfer only as its step
\* on a chain-id read that equals the intent's chain id, and never again
\* afterwards; a chain id that still differs after the switch throws
\* wallet_wrong_network; and after wallet_not_found, wallet_no_account or
\* wallet_wrong_network the invocation makes no wallet call any more and
\* records no transaction hash.
C30_TransferOnceOnRightChain ==
    [][/\ \A t \in DOMAIN tasks' :
              LET before == IF t \in DOMAIN tasks THEN tasks[t].pc ELSE "new" IN
              /\ (tasks'[t].pc = "sendTransfer" /\ before # "sendTransfer") =>
                     /\ before \in {"getChainId", "getChainId2"}
                     /\ lastStep'.task = t
                     /\ lastStep'.op \in {"chainId", "rechecked"}
                     /\ lastStep'.chainId = IntentChainId
              /\ (before \in {"sendTransfer", "poll_resolve", "poll_sleep", "done"}) =>
                     tasks'[t].pc \in {"sendTransfer", "poll_resolve", "poll_sleep", "done"}
              /\ (before \in {"poll_resolve", "poll_sleep", "done"}) =>
                     tasks'[t].pc # "sendTransfer"
       /\ (lastStep'.op = "rechecked" /\ lastStep'.chainId # IntentChainId) =>
              /\ "thrown" \in DOMAIN lastStep'
              /\ lastStep'.thrown = WalletWrongNetwork
       /\ ("thrown" \in DOMAIN lastStep'
             /\ lastStep'.op \in {"continue", "accounts", "rechecked"}) =>
              /\ lastStep'.thrown \in {WalletNotFound, WalletNoAccount, WalletWrongNetwork}
              /\ tasks'[lastStep'.task].pc \in {"poll_resolve", "done"}
              /\ lastTxHash' \in {lastTxHash, NullHash}]_vars

\* the chain id still differed after the switch: the flow fell back to
\* manual payment and polls, no transfer made
C30_Witness ==
    /\ lastStep.op = "rechecked"
    /\ lastStep.chainId = OtherChainId
    /\ lastStep.thrown = WalletWrongNetwork
    /\ tasks[lastStep.task].pc = "poll_resolve"
    /\ lastTxHash = NullHash
    /\ state.type = "waiting"

\* C31: while the controller is in awaiting_confirmation, a step publishes
\* a state only if it is keepWaiting() or close(), or if every state it
\* publishes is a terminal one (success, expired, error); in particular a
\* polling loop publishes neither waiting nor awaiting_confirmation again.
C31_CallerOwnsAwaiting ==
    [][(state.type = "awaiting_confirmation" /\ emitted' # << >>) =>
          \/ lastStep'.op \in {"keepWaiting", "close"}
          \/ \A i \in DOMAIN emitted' :
                 emitted'[i].type \in {"success", "expired", "error"}]_vars

\* the invocations inside waitForFinalStatus: awaiting a resolver query or
\* asleep between two queries
ActiveLoops == {t \in DOMAIN tasks : tasks[t].pc \in {"poll_resolve", "poll_sleep"}}

\* C32: at any time at most one polling loop is active.
C32_OneLoop == Cardinality(ActiveLoops) <= 1

\* C33: from a close() until the next open() (the stop flag is set) the
\* state is idle, and no step other than close() and open() publishes a
\* state or invokes a callback.
C33_ClosedStaysIdle ==
    [][(stopRequested /\ lastStep'.op \notin {"open", "close"}) =>
          /\ state.type = "idle"
          /\ emitted' = << >>
          /\ fired' = << >>
          /\ state' = state]_vars

\* C34: a polling loop that was started before a close() neither publishes
\* a state nor invokes a callback in any step it takes after that close(),
\* whether or not open() was called since.
C34_StaleLoopSilent ==
    [][(/\ lastStep'.op \in {"pollResolved", "pollRejected", "sleepDone"}
        /\ tasks[lastStep'.task].session < calls.onClose) =>
          /\ emitted' = << >>
          /\ fired' = << >>
          /\ state' = state]_vars

(***************************************************************************)
(* C35: two continue() calls in immediate succession from choose_method    *)
(* start at most one flow.  The first call leaves choose_method before it  *)
(* returns to its caller (manual_instructions or waiting, wallet_connecting,*)
(* the manual fallback, or error), so the guard of the second call, which  *)
(* returns when the state is not choose_method, makes it a no-op.          *)
(***************************************************************************)
C35_SecondContinueIsNoOp ==
    lastStep.op = "continue" =>
        /\ state.type # "choose_method"
        /\ tasks[lastStep.task].kind = "continue"
        /\ lastStep.task = Len(tasks)

\* a continue() that went through the chooser again on its way (the wallet
\* is missing and the flow fell back to manual) and now waits
C35_Witness ==
    /\ lastStep.op = "continue"
    /\ \E i \in DOMAIN emitted : emitted[i].type = "choose_method"
    /\ state.type = "waiting"
    /\ tasks[lastStep.task].pc = "poll_resolve"

(***************************************************************************)
(* The controller under a scheduler that is fair to the polling loops: a   *)
(* resolver query that is awaited is answered or fails, and the timer of a *)
(* sleep fires.  Every query takes the total timeout ("stalled"), so the   *)
(* loops run to their end and the number of queries needs no bound.        *)
(***************************************************************************)
InitLive == Init /\ scenario = "stalled"

NextLive ==
    \/ Next
    \/ \E t \in DOMAIN tasks : Wake(t)

\* the settlement of the resolver query that invocation t awaits
Settled(t) ==
    /\ t \in DOMAIN tasks
    /\ \/ \E status \in Statuses : PollResolved(t, status)
       \/ \E err \in ResolverErrors : PollRejected(t, err)

\* the timer of the sleep of invocation t
Timer(t) == t \in DOMAIN tasks /\ Wake(t)

FairLive == \A t \in 1 .. MaxTasks : WF_vars(Settled(t)) /\ WF_vars(Timer(t))

SpecLive == InitLive /\ [][NextLive]_vars /\ FairLive

(***************************************************************************)
(* C36: every polling loop that was started eventually returns, given that *)
(* each resolver query is answered or fails.  An observation of succeeded  *)
(* or expired returns; an observation that does not return was made within *)
(* the total timeout of the loop's start, and the loop sleeps and asks     *)
(* again; a failed query ends the loop.                                    *)
(***************************************************************************)
C36_LoopReturns ==
    /\ [](lastStep.op = "pollResolved" =>
            LET t == lastStep.task
                final == lastStep.status \in {"succeeded", "expired"}
            IN  /\ final => lastStep.returned /\ ~lastStep.timedOut
                /\ lastStep.returned => tasks[t].pc = "done" /\ (final \/ lastStep.timedOut)
                /\ ~lastStep.returned =>
                      /\ tasks[t].pc = "poll_sleep"
                      /\ ~(clock - tasks[t].start > pollTimeoutMs))
    /\ [](lastStep.op = "pollRejected" => tasks[lastStep.task].pc = "done")
    /\ \A t \in 1 .. MaxTasks :
           (t \in DOMAIN tasks /\ tasks[t].pc \in {"poll_resolve", "poll_sleep"})
               ~> (t \in DOMAIN tasks /\ tasks[t].pc = "done")

\* a loop that returned on the observation it made after the total timeout,
\* having slept once before
C36_Witness ==
    /\ lastStep.op = "pollResolved"
    /\ lastStep.timedOut
    /\ lastStep.obs = 2
    /\ tasks[lastStep.task].pc = "done"

(***************************************************************************)
(* C37: the vanilla modal cleans up only when the controller goes to idle  *)
(* through close().  Subscribing a function of the modal delivers the      *)
(* initial state without an exception, without a callback of the           *)
(* configuration and without removing a function, and leaves the function  *)
(* registered; a function is removed only by a close() step or by a call   *)
(* of its handle from outside.                                             *)
(***************************************************************************)
C37_CleanupOnlyOnClose ==
    [][/\ lastStep'.op = "subscribe" =>
             /\ ~threw'
             /\ fired' = << >>
             /\ \E i \in DOMAIN listeners' : listeners'[i] = lastStep'.fn
       /\ (\E fn \in Functions : Registered(fn) /\ ~Registered(fn)') =>
             lastStep'.op \in {"close", "unsubscribe"}]_vars

(***************************************************************************)
(* C38: a waiting state never carries an intent whose status is succeeded  *)
(* or expired: no step publishes such a state, and the controller is never *)
(* in one.                                                                 *)
(***************************************************************************)
C38_WaitingIsNotFinal ==
    /\ \A i \in DOMAIN emitted :
           emitted[i].type = "waiting" =>
               emitted[i].intent.status \notin {"succeeded", "expired"}
    /\ state.type = "waiting" => state.intent.status \notin {"succeeded", "expired"}

(***************************************************************************)
(* C39: the tx_hash passed to onSuccess is the hash of the wallet_submitted*)
(* state of the continue() attempt that led to the success, and the empty  *)
(* string when that attempt submitted nothing (manual path, fallback).     *)
(* The attempt of a loop is the continue() that started it, or for a loop  *)
(* of keepWaiting() the latest continue() before it.                       *)
(***************************************************************************)
Attempt(t) ==
    IF tasks[t].kind = "continue" THEN t
    ELSE CHOOSE a \in 1 .. t :
             /\ tasks[a].kind = "continue"
             /\ \A b \in (a + 1) .. t : tasks[b].kind # "continue"

C39_HashOfThisAttempt ==
    [][\A i \in DOMAIN fired' :
          fired'[i].cb = "onSuccess" =>
              LET sent == tasks[Attempt(lastStep'.task)].sent
              IN  fired'[i].arg.tx_hash = IF sent = NullHash THEN EmptyHash ELSE sent]_vars

(***************************************************************************)
(* One instance whose owner closes it and opens it again, as the React     *)
(* wrapper does from its effect on the open prop.                          *)
(***************************************************************************)
InitToggle ==
    /\ Constructed
    /\ scenario = "toggled"
    /\ config = Constructor([allowManual |-> "absent", allowWallet |-> "absent",
                             defaultMethod |-> "absent"])
    /\ lastStep = Step("new", 0)

SpecToggle == InitToggle /\ [][Next]_vars

(***************************************************************************)
(* C40: when an open() ends in the error state with no close() since it    *)
(* was called, the running flag is still set and a further open() changes  *)
(* nothing; the flag is cleared by close() alone.  With the flag clear     *)
(* open() publishes loading_intent and calls the resolver again.           *)
(***************************************************************************)
C40_ErrorKeepsRunning ==
    [][/\ (lastStep'.op = "openRejected"
             /\ tasks[lastStep'.task].session = calls.onClose) =>
                 /\ state'.type = "error"
                 /\ isRunning'
                 /\ (open(Ctl0) = Ctl0)'
       /\ (isRunning /\ ~isRunning') => lastStep'.op = "close"
       /\ ~isRunning =>
             LET c == open(Ctl0)
             IN  /\ c.isRunning /\ ~c.stopRequested
                 /\ c.state.type = "loading_intent"
       /\ lastStep'.op = "open" =>
             /\ ~isRunning /\ isRunning'
             /\ tasks'[lastStep'.task].pc = "open_resolve"]_vars

\* the first open() failed, close() followed, and the second open() has
\* reached the chooser
C40_Witness ==
    /\ lastStep.op = "openResolved"
    /\ lastStep.task = 2
    /\ tasks[1].kind = "open" /\ tasks[1].pc = "done"
    /\ calls.onError = 1
    /\ calls.onClose = 1
    /\ state.type = "choose_method"

====
